---- MODULE Spec2Model ----
(***************************************************************************)
(* Task/queue lifecycle engine of the parking bot (src/bot.py,             *)
(* src/services.py, src/models.py).                                        *)
(*                                                                         *)
(* The bot is one asyncio process (aiogram long polling): every update is  *)
(* handled in its own task, all tasks run on one event loop and switch     *)
(* only where a handler really suspends (Telegram network calls,           *)
(* asyncio.sleep).  SQLAlchemy calls and the repository's own `async def`  *)
(* helpers that contain no suspending await (get_user,                     *)
(* get_free_parking_spot, MemoryStorage of the FSM) run without a switch.  *)
(* An action below is therefore the code of a handler between two          *)
(* suspension points; what is left of the handler after a suspension is    *)
(* kept in `pend` (the in-flight handlers) and resumed by its own action.  *)
(***************************************************************************)
EXTENDS Integers, Sequences, FiniteSets, Bags, TLC

VARIABLES
    now,        \* the clock read by get_timezone_aware_now()
    parkings,   \* table parkings: sequence of rows, the row id is the index
    tasks,      \* table tasks: function from the row ids to the rows
    queue,      \* table parking_queue: sequence of rows
    on_shift,   \* users with is_on_shift = True
    on_break,   \* users with is_on_break = True
    fsm,        \* per-user FSM storage (state and the task_id of the data)
    op,         \* the operator's FSM storage (state, parking_id, stuck_task_id)
    btn,        \* task ids for which stuck-task buttons are on the operator's screen
    pend,       \* bag of in-flight handlers suspended at an await
    rec         \* the background reconciler (its position and its session)

vars == <<now, parkings, tasks, queue, on_shift, on_break, fsm, op, btn, pend, rec>>

----------------------------------------------------------------------------
(* Bounds of the model *)

\* users of the bot
NumUsers == 2

\* config.PARKING_SPOTS is 50 in src/config.py:18; the model keeps the
\* algorithm and scales the number of spots down.
PARKING_SPOTS == 2

\* rows of table parkings
MaxParkings == 3

\* largest row id of table tasks
MaxTasks == 2

\* rows of table parking_queue
MaxQueue == 2

\* last value of the clock
MaxTime == 1

\* handlers suspended at the same time
MaxPend == 2

\* largest priority a handler may raise a task to
MaxPriority == 15

\* additions of 1 the reconciler has made to a waiting task's priority
MaxBumps == 1

\* runs of the reconciler
MaxRuns == 2

\* largest priority a report of a missing vehicle may raise a task to
MaxNoVehiclePriority == 20

\* The clock of the model counts half hours and a time is the tick it falls
\* in.  A task is "older than 15 minutes" (timedelta(minutes=15)) when its
\* created_at lies at least one tick back, and "in progress for more than 30
\* minutes" (timedelta(minutes=30)) when its started_at does.
POOL_WAIT_TICKS == 1

STUCK_TASK_TICKS == 1

----------------------------------------------------------------------------
(* Values *)

None == 0

NoTime == -1

Users == 1 .. NumUsers

\* every user gets the DRIVER role on creation (get_or_create_user); here
\* the administrator has also given DRIVER_TRANSFER to each of them
TransferDrivers == Users

Min(S) == CHOOSE x \in S : \A y \in S : x <= y

Max(S) == CHOOSE x \in S : \A y \in S : y <= x

NoFsm == [state |-> "none", task_id |-> None]

\* the operator's dialogue: the FSM state and data, and the error the last
\* message of the dialogue was answered with
NoOp == [state |-> "none", parking_id |-> None, stuck_task_id |-> None,
         abk_type |-> "none", reply |-> "none"]

\* the reconciler between two runs: pc is its position, at the `now` of
\* the run, pool and stuck the rows its session holds, failed whether a
\* notification of the last run has raised, runs the runs started
IdleRec == [pc |-> "sleep", at |-> NoTime, pool |-> {}, stuck |-> {}, failed |-> FALSE, runs |-> 0]

\* a suspended handler: its kind k, its local values a and b (and abk_type,
\* gate_number), and the users the notification it is sending goes to
Cont(k, a, b) == [k |-> k, a |-> a, b |-> b, to |-> {}, abk_type |-> "none", gate_number |-> None]

Spawn(c) == pend (+) SetToBag({c})

Resume(c) == pend (-) SetToBag({c})

CanSpawn == BagCardinality(pend) < MaxPend

----------------------------------------------------------------------------
(* Queries *)

ActiveParkings == {p \in DOMAIN parkings : parkings[p].departure_time = NoTime}

\* the query without the filter departure_time == None
active_parking_any(u) ==
    LET S == {p \in DOMAIN parkings : parkings[p].user_id = u}
    IN  IF S = {} THEN None ELSE Min(S)

\* db.query(Parking).filter(user_id == u, departure_time == None).first()
active_parking(u) ==
    LET S == {p \in ActiveParkings : parkings[p].user_id = u}
    IN  IF S = {} THEN None ELSE Min(S)

\* db.query(Task).filter(parking_id == p, status.in_([PENDING, IN_PROGRESS])).first()
active_task(p) ==
    LET S == {t \in DOMAIN tasks : /\ tasks[t].parking_id = p
                                   /\ tasks[t].status \in {"PENDING", "IN_PROGRESS"}}
    IN  IF S = {} THEN None ELSE Min(S)

\* the scan without the membership test
get_free_parking_spot_any ==
    LET occupied_numbers == {parkings[p].spot_number : p \in ActiveParkings}
        free == 1 .. PARKING_SPOTS
    IN  IF Cardinality(occupied_numbers) >= PARKING_SPOTS THEN None
        ELSE IF free = {} THEN None
        ELSE Min(free)

\* the scan descending from the last spot
get_free_parking_spot_highest ==
    LET occupied_numbers == {parkings[p].spot_number : p \in ActiveParkings}
        free == {s \in 1 .. PARKING_SPOTS : s \notin occupied_numbers}
    IN  IF Cardinality(occupied_numbers) >= PARKING_SPOTS THEN None
        ELSE IF free = {} THEN None
        ELSE Max(free)

get_free_parking_spot ==
    LET occupied_numbers == {parkings[p].spot_number : p \in ActiveParkings}
        free == {s \in 1 .. PARKING_SPOTS : s \notin occupied_numbers}
    IN  IF Cardinality(occupied_numbers) >= PARKING_SPOTS THEN None
        ELSE IF free = {} THEN None
        ELSE Min(free)

\* the query without the filter is_on_break == False
get_active_transfer_drivers_on_shift == {u \in TransferDrivers : u \in on_shift}

get_active_transfer_drivers == {u \in TransferDrivers : u \in on_shift /\ u \notin on_break}

Waiting == {q \in DOMAIN queue : queue[q].status = "waiting"}

\* .filter(status == "waiting").order_by(created_at.asc()).first():
\* the candidates are the waiting rows of minimal created_at
next_in_queue_desc == {q \in Waiting : \A r \in Waiting : queue[r].created_at <= queue[q].created_at}

next_in_queue == {q \in Waiting : \A r \in Waiting : queue[q].created_at <= queue[r].created_at}

----------------------------------------------------------------------------
(* Initial state: empty tables, nobody on shift, no dialogue open *)

Init ==
    /\ now = 0
    /\ parkings = <<>>
    /\ tasks = [t \in {} |-> None]
    /\ queue = <<>>
    /\ on_shift = {}
    /\ on_break = {}
    /\ fsm = [u \in Users |-> NoFsm]
    /\ op = NoOp
    /\ btn = {}
    /\ pend = EmptyBag
    /\ rec = IdleRec

\* time passes
Tick ==
    /\ now < MaxTime
    /\ now' = now + 1
    /\ UNCHANGED <<parkings, tasks, queue, on_shift, on_break, fsm, op, btn, pend, rec>>

----------------------------------------------------------------------------
(* Arrival and departure *)

\* The vehicle-type button ("vehicle_hitch" / "vehicle_non_hitch").  The
\* handler has no state filter and the keyboard stays in the chat once
\* process_vehicle_number has shown it, so the callback can arrive in any
\* state.  The scan for a free spot and the commit of the new row are not
\* separated by a suspension.  The closing state.clear() is applied with it.
process_vehicle_type(u, is_hitch) ==
    LET spot_number == get_free_parking_spot
    IN  /\ IF spot_number # None
           THEN /\ Len(parkings) < MaxParkings
                /\ parkings' = Append(parkings,
                       [user_id |-> u, spot_number |-> spot_number,
                        is_hitch |-> is_hitch, departure_time |-> NoTime])
                /\ UNCHANGED queue
           ELSE \* add_to_parking_queue
                /\ Len(queue) < MaxQueue
                /\ queue' = Append(queue,
                       [user_id |-> u, status |-> "waiting", created_at |-> now,
                        spot_number |-> None])
                /\ UNCHANGED parkings
        /\ fsm' = [fsm EXCEPT ![u] = NoFsm]
        /\ UNCHANGED <<now, tasks, on_shift, on_break, op, btn, pend, rec>>

\* "Убытие": the checks and the commit of departure_time run without a
\* suspension; the queue is processed after the reply has been sent.
process_departure(u) ==
    LET p == active_parking(u)
    IN  /\ p # None
        /\ active_task(p) = None
        /\ CanSpawn
        /\ parkings' = [parkings EXCEPT ![p].departure_time = now]
        /\ pend' = Spawn(Cont("promote", parkings[p].spot_number, None))
        /\ UNCHANGED <<now, tasks, queue, on_shift, on_break, fsm, op, btn, rec>>

\* process_departure refused: the caller is not parked (NotOccupied) or the
\* occupancy has a PENDING / IN_PROGRESS task (TaskStillActive)
process_departure_refused(u) ==
    LET p == active_parking(u)
    IN  /\ p = None \/ active_task(p) # None
        /\ UNCHANGED vars

\* services.process_parking_departure, called by process_departure after
\* its reply: the earliest waiting entry becomes notified
process_parking_departure(c) ==
    /\ c.k = "promote"
    /\ BagIn(c, pend)
    /\ pend' = Resume(c)
    /\ IF Waiting = {}
       THEN UNCHANGED queue
       ELSE \E q \in next_in_queue :
                queue' = [queue EXCEPT ![q].status = "notified",
                                       ![q].spot_number = c.a]
    /\ UNCHANGED <<now, parkings, tasks, on_shift, on_break, fsm, op, btn, rec>>

\* Departure registered by the inspection employee for the vehicle of
\* user v (the vehicle number identifies the owner's vehicle).  The reply
\* after the commit raises (name `user` is unbound on this path), which
\* ends the handler; nothing else of it changes the tables.
process_deb_departure_input(v) ==
    LET p == active_parking(v)
    IN  /\ p # None
        /\ parkings' = [parkings EXCEPT ![p].departure_time = now]
        /\ UNCHANGED <<now, tasks, queue, on_shift, on_break, fsm, op, btn, pend, rec>>

----------------------------------------------------------------------------
(* Shifts of the transfer drivers *)

process_shift_start(u) ==
    /\ u \in TransferDrivers
    /\ u \notin on_shift
    /\ on_shift' = on_shift \cup {u}
    /\ UNCHANGED <<now, parkings, tasks, queue, on_break, fsm, op, btn, pend, rec>>

----------------------------------------------------------------------------
(* Task creation by the operator *)

\* sqlite gives a new row the largest id in use plus one
NewTaskId == IF DOMAIN tasks = {} THEN 1 ELSE Max(DOMAIN tasks) + 1

\* Task(parking_id, status="PENDING", created_at, is_in_pool=parking.is_hitch);
\* for a fixed-class vehicle is_in_pool is set to False before the insert
\* gate 1 of building 1 is the gate where no other is named.  Column
\* gate_number is the gate typed by the operator; the table has no column
\* for the building, abk_type records the building chosen in the dialogue
\* that has created the task.
NewTask(p, created_at) ==
    [parking_id |-> p, driver_id |-> None, status |-> "PENDING", priority |-> 0,
     created_at |-> created_at, started_at |-> NoTime, completed_at |-> NoTime,
     is_in_pool |-> parkings[p].is_hitch, stuck_reason |-> "none",
     gate_number |-> 1, abk_type |-> "ABK1"]

\* the texts the operator types for a gate: a text that is no positive
\* number (0) and the numbers at the edges of the ranges of the buildings
Gates == {0, 1, 10, 11, 59, 60, 65, 66, 83, 84}

\* the check of the gate against the chosen building without the closed
\* gates 60..65 of building 1
valid_gate_1_83(abk_type, gate_number) ==
    IF abk_type = "ABK1" THEN 1 <= gate_number /\ gate_number <= 83
    ELSE IF abk_type = "ABK2" THEN 1 <= gate_number /\ gate_number <= 10
    ELSE FALSE

\* process_gate_assignment: the check of the gate against the chosen building
valid_gate(abk_type, gate_number) ==
    IF abk_type = "ABK1"
    THEN (1 <= gate_number /\ gate_number <= 59) \/ (66 <= gate_number /\ gate_number <= 83)
    ELSE IF abk_type = "ABK2" THEN 1 <= gate_number /\ gate_number <= 10
    ELSE FALSE

\* process_new_gate_for_stuck_task: the building is taken from the gate the
\* task has, and the range of building 1 is tried first
valid_new_gate(old_gate_number, new_gate_number) ==
    IF (1 <= old_gate_number /\ old_gate_number <= 59)
            \/ (66 <= old_gate_number /\ old_gate_number <= 83)
    THEN (1 <= new_gate_number /\ new_gate_number <= 59)
            \/ (66 <= new_gate_number /\ new_gate_number <= 83)
    ELSE IF 1 <= old_gate_number /\ old_gate_number <= 10
    THEN 1 <= new_gate_number /\ new_gate_number <= 10
    ELSE TRUE

InsertTask(row) ==
    LET id == NewTaskId
    IN  [t \in DOMAIN tasks \cup {id} |-> IF t = id THEN row ELSE tasks[t]]

\* button select_vehicle_<id>: the vehicle is kept in the dialogue only if
\* it is still parked and has no PENDING / IN_PROGRESS task
process_select_vehicle(p) ==
    /\ p \in DOMAIN parkings
    /\ active_task(p) = None
    /\ parkings[p].departure_time = NoTime
    /\ op.parking_id # p
    /\ op' = [op EXCEPT !.parking_id = p]
    /\ UNCHANGED <<now, parkings, tasks, queue, on_shift, on_break, fsm, btn, pend, rec>>

\* buttons select_abk1 / select_abk2 of the keyboard shown by
\* process_select_vehicle
process_select_abk_type(abk_type) ==
    /\ op.parking_id # None
    /\ op.state # "gate_number" \/ op.abk_type # abk_type
    /\ op' = [op EXCEPT !.state = "gate_number", !.abk_type = abk_type]
    /\ UNCHANGED <<now, parkings, tasks, queue, on_shift, on_break, fsm, btn, pend, rec>>

\* button select_abk1
process_select_abk == process_select_abk_type("ABK1")

\* button select_abk2
process_select_abk2 == process_select_abk_type("ABK2")

\* the recipients of the notification of process_gate_assignment: the
\* active transfer drivers for a transfer-capable vehicle ("НОВАЯ ЗАДАЧА В
\* ПУЛЕ"), the owner for a fixed-class one ("НОВОЕ ЗАДАНИЕ")
Recipients(p) ==
    IF parkings[p].is_hitch THEN get_active_transfer_drivers
    ELSE {parkings[p].user_id}

\* the notification suspends the handler when there is a recipient
AssignmentSuspends(p) == Recipients(p) # {}

\* A text typed in state waiting_for_gate_number: the check of the number
\* and of the gate against the building (an error is answered and the
\* handler returns), the final check, the construction of the Task and,
\* after the notifications, the insert.
process_gate_assignment_gate(gate_number) ==
    LET p == op.parking_id
    IN  /\ op.state = "gate_number"
        /\ p \in DOMAIN parkings
        /\ IF gate_number <= 0
           THEN /\ op' = [op EXCEPT !.reply = "not_a_number"]
                /\ UNCHANGED <<tasks, pend>>
           ELSE IF ~ valid_gate(op.abk_type, gate_number)
           THEN /\ op' = [op EXCEPT !.reply = "invalid_gate"]
                /\ UNCHANGED <<tasks, pend>>
           ELSE IF active_task(p) # None \/ parkings[p].departure_time # NoTime
           THEN \* refused, state.clear()
                /\ op' = NoOp
                /\ UNCHANGED <<tasks, pend>>
           ELSE IF AssignmentSuspends(p)
           THEN /\ CanSpawn
                /\ pend' = Spawn([Cont("addtask", p, now) EXCEPT !.to = Recipients(p),
                                                                 !.abk_type = op.abk_type,
                                                                 !.gate_number = gate_number])
                /\ UNCHANGED <<tasks, op>>
           ELSE /\ NewTaskId <= MaxTasks
                /\ tasks' = InsertTask([NewTask(p, now) EXCEPT !.abk_type = op.abk_type,
                                                               !.gate_number = gate_number])
                /\ op' = NoOp
                /\ UNCHANGED pend
        /\ UNCHANGED <<now, parkings, queue, on_shift, on_break, fsm, btn, rec>>

\* the operator types "1"
process_gate_assignment == process_gate_assignment_gate(1)

\* process_gate_assignment after its notifications: db.add(task),
\* db.commit() and the closing state.clear()
process_gate_assignment_commit(c) ==
    /\ c.k = "addtask"
    /\ BagIn(c, pend)
    /\ NewTaskId <= MaxTasks
    /\ pend' = Resume(c)
    /\ tasks' = InsertTask([NewTask(c.a, c.b) EXCEPT !.abk_type = c.abk_type,
                                                     !.gate_number = c.gate_number])
    /\ op' = NoOp
    /\ UNCHANGED <<now, parkings, queue, on_shift, on_break, fsm, btn, rec>>

----------------------------------------------------------------------------
(* The owner brings his own vehicle to the gate *)

\* "Встать на ворота": the caller's occupancy, its PENDING / IN_PROGRESS
\* task, the assignment, state.update_data(task_id) and the state
\* DriverStates.waiting_for_gate_confirmation
process_gate_request(u) ==
    LET p == active_parking(u)
        t == active_task(p)
    IN  /\ p # None
        /\ t # None
        /\ ~ (tasks[t].driver_id # None /\ tasks[t].driver_id # u)
        /\ tasks' = IF tasks[t].status = "IN_PROGRESS" /\ tasks[t].driver_id = None
                    THEN [tasks EXCEPT ![t].driver_id = u,
                                       ![t].started_at = IF @ = NoTime THEN now ELSE @]
                    ELSE IF tasks[t].status = "PENDING"
                    THEN [tasks EXCEPT ![t].driver_id = u,
                                       ![t].status = "IN_PROGRESS",
                                       ![t].started_at = now]
                    ELSE tasks
        /\ fsm' = [fsm EXCEPT ![u] = [state |-> "gate", task_id |-> t]]
        /\ UNCHANGED <<now, parkings, queue, on_shift, on_break, op, btn, pend, rec>>

\* button "gate_completed" (no state filter): the task named by the FSM data
\* becomes COMPLETED and the caller's own active occupancy is closed; the
\* state is cleared after the replies
process_gate_completed(u) ==
    LET t == fsm[u].task_id
        p == active_parking(u)
    IN  /\ t # None
        /\ t \in DOMAIN tasks
        /\ CanSpawn
        /\ tasks' = [tasks EXCEPT ![t].status = "COMPLETED", ![t].completed_at = now]
        /\ parkings' = IF p # None
                       THEN [parkings EXCEPT ![p].departure_time = now]
                       ELSE parkings
        /\ pend' = Spawn(Cont("clear", u, None))
        /\ UNCHANGED <<now, queue, on_shift, on_break, fsm, op, btn, rec>>

\* the closing `await state.clear()` of a handler that replied first
state_clear(c) ==
    /\ c.k = "clear"
    /\ BagIn(c, pend)
    /\ pend' = Resume(c)
    /\ fsm' = [fsm EXCEPT ![c.a] = NoFsm]
    /\ UNCHANGED <<now, parkings, tasks, queue, on_shift, on_break, op, btn, rec>>

----------------------------------------------------------------------------
(* The pool of the transfer drivers *)

\* the filter of the pool query
Eligible ==
    {t \in DOMAIN tasks : /\ tasks[t].status = "PENDING"
                          /\ tasks[t].is_in_pool
                          /\ parkings[tasks[t].parking_id].is_hitch
                          /\ parkings[tasks[t].parking_id].departure_time = NoTime
                          /\ tasks[t].driver_id = None}

\* ORDER BY priority ASC in place of DESC
Before_asc(a, b) ==
    \/ tasks[a].priority < tasks[b].priority
    \/ tasks[a].priority = tasks[b].priority /\ tasks[a].created_at < tasks[b].created_at

\* .order_by(Task.priority.desc(), Task.created_at.asc()): row a sorts
\* strictly before row b
Before(a, b) ==
    \/ tasks[a].priority > tasks[b].priority
    \/ tasks[a].priority = tasks[b].priority /\ tasks[a].created_at < tasks[b].created_at

\* the filter without the conditions on status and driver_id
PoolFirst_any ==
    LET rows == {t \in DOMAIN tasks : /\ tasks[t].is_in_pool
                                      /\ tasks[t].status \in {"PENDING", "IN_PROGRESS"}
                                      /\ parkings[tasks[t].parking_id].is_hitch
                                      /\ parkings[tasks[t].parking_id].departure_time = NoTime}
    IN  {t \in rows : \A e \in rows : ~ Before(e, t)}

\* .first() of the ordered pool query: a row that no other row sorts before
PoolFirst == {t \in Eligible : \A e \in Eligible : ~ Before(e, t)}

\* process_take_task from the check of the caller's IN_PROGRESS task to the
\* commit of the assignment, with state.update_data(task_id) and the state
\* DriverTransferStates.waiting_for_gate_confirmation
TakeFromPool(u) ==
    IF (\E t \in DOMAIN tasks : tasks[t].driver_id = u /\ tasks[t].status = "IN_PROGRESS")
       \/ PoolFirst = {}
    THEN UNCHANGED <<tasks, fsm>>
    ELSE \E t \in PoolFirst :
            /\ tasks' = [tasks EXCEPT ![t].driver_id = u,
                                      ![t].status = "IN_PROGRESS",
                                      ![t].started_at = now,
                                      ![t].stuck_reason = "none"]
            /\ fsm' = [fsm EXCEPT ![u] = [state |-> "tgate", task_id |-> t]]

\* the release of the caller's STUCK task without the change of priority
process_take_task_no_bump(u) ==
    LET stuck == {t \in DOMAIN tasks : tasks[t].driver_id = u /\ tasks[t].status = "STUCK"}
    IN  /\ u \in TransferDrivers
        /\ u \in on_shift
        /\ IF stuck # {}
           THEN LET t == Min(stuck)
                IN  /\ CanSpawn
                    /\ tasks' = [tasks EXCEPT ![t].driver_id = None,
                                              ![t].status = "PENDING",
                                              ![t].is_in_pool = TRUE]
                    /\ pend' = Spawn(Cont("claim", u, None))
                    /\ UNCHANGED fsm
           ELSE /\ TakeFromPool(u)
                /\ UNCHANGED pend
        /\ UNCHANGED <<now, parkings, queue, on_shift, on_break, op, btn, rec>>

\* "Взять задачу": a STUCK task of the caller is first returned to the pool
\* (+5) and the caller is told so before the handler goes on
process_take_task(u) ==
    LET stuck == {t \in DOMAIN tasks : tasks[t].driver_id = u /\ tasks[t].status = "STUCK"}
    IN  /\ u \in TransferDrivers
        /\ u \in on_shift
        /\ IF stuck # {}
           THEN LET t == Min(stuck)
                IN  /\ CanSpawn
                    /\ tasks[t].priority + 5 <= MaxPriority
                    /\ tasks' = [tasks EXCEPT ![t].driver_id = None,
                                              ![t].status = "PENDING",
                                              ![t].is_in_pool = TRUE,
                                              ![t].priority = @ + 5]
                    /\ pend' = Spawn(Cont("claim", u, None))
                    /\ UNCHANGED fsm
           ELSE /\ TakeFromPool(u)
                /\ UNCHANGED pend
        /\ UNCHANGED <<now, parkings, queue, on_shift, on_break, op, btn, rec>>

\* process_take_task resumed after the notice about the released task
process_take_task_resume(c) ==
    /\ c.k = "claim"
    /\ BagIn(c, pend)
    /\ pend' = Resume(c)
    /\ TakeFromPool(c.a)
    /\ UNCHANGED <<now, parkings, queue, on_shift, on_break, op, btn, rec>>

\* button "transfer_gate_completed" in state
\* DriverTransferStates.waiting_for_gate_confirmation
process_transfer_gate_completed(u) ==
    LET t == fsm[u].task_id
    IN  /\ fsm[u].state = "tgate"
        /\ t # None
        /\ t \in DOMAIN tasks
        /\ CanSpawn
        /\ tasks' = [tasks EXCEPT ![t].status = "COMPLETED", ![t].completed_at = now]
        /\ parkings' = [parkings EXCEPT ![tasks[t].parking_id].departure_time = now]
        /\ pend' = Spawn(Cont("clear", u, None))
        /\ UNCHANGED <<now, queue, on_shift, on_break, fsm, op, btn, rec>>

----------------------------------------------------------------------------
(* Blocked gates *)

\* button "gate_occupied" of the owner's dialogue (no state filter, no
\* condition on the status of the task); the FSM data stay as they are
process_gate_occupied(u) ==
    LET t == fsm[u].task_id
    IN  /\ t # None
        /\ t \in DOMAIN tasks
        /\ IF parkings[tasks[t].parking_id].is_hitch
           THEN /\ tasks[t].priority + 10 <= MaxPriority
                /\ tasks' = [tasks EXCEPT ![t].status = "STUCK",
                                          ![t].stuck_reason = "gate_occupied",
                                          ![t].is_in_pool = TRUE,
                                          ![t].priority = @ + 10]
           ELSE tasks' = [tasks EXCEPT ![t].status = "STUCK",
                                       ![t].stuck_reason = "gate_occupied"]
        /\ UNCHANGED <<now, parkings, queue, on_shift, on_break, fsm, op, btn, pend, rec>>

\* button "transfer_gate_occupied" in state
\* DriverTransferStates.waiting_for_gate_confirmation
process_transfer_gate_occupied(u) ==
    LET t == fsm[u].task_id
    IN  /\ fsm[u].state = "tgate"
        /\ t # None
        /\ t \in DOMAIN tasks
        /\ CanSpawn
        /\ tasks[t].priority + 15 <= MaxPriority
        /\ tasks' = [tasks EXCEPT ![t].status = "STUCK",
                                  ![t].stuck_reason = "gate_occupied",
                                  ![t].driver_id = None,
                                  ![t].is_in_pool = TRUE,
                                  ![t].priority = @ + 15]
        /\ pend' = Spawn(Cont("clear", u, None))
        /\ UNCHANGED <<now, parkings, queue, on_shift, on_break, fsm, op, btn, rec>>

----------------------------------------------------------------------------
(* The operator and the STUCK tasks *)

\* "Зависшие задачи": one message per STUCK task with the buttons
\* reassign_gate_<id> and close_stuck_task_<id>; the messages stay in the chat
process_stuck_tasks ==
    LET stuck_tasks == {t \in DOMAIN tasks : tasks[t].status = "STUCK"}
    IN  /\ stuck_tasks # {}
        /\ ~ (stuck_tasks \subseteq btn)
        /\ btn' = btn \cup stuck_tasks
        /\ UNCHANGED <<now, parkings, tasks, queue, on_shift, on_break, fsm, op, pend, rec>>

\* button close_stuck_task_<id>
process_close_stuck_task(t) ==
    /\ t \in btn
    /\ t \in DOMAIN tasks
    /\ tasks' = [tasks EXCEPT ![t].status = "CANCELLED",
                              ![t].stuck_reason = "closed",
                              ![t].driver_id = None,
                              ![t].is_in_pool = FALSE]
    /\ UNCHANGED <<now, parkings, queue, on_shift, on_break, fsm, op, btn, pend, rec>>

\* button reassign_gate_<id>: state.update_data(stuck_task_id) and the state
\* OperatorStates.waiting_for_new_gate_for_stuck_task
process_reassign_gate(t) ==
    /\ t \in btn
    /\ t \in DOMAIN tasks
    /\ op' = [op EXCEPT !.state = "new_gate", !.stuck_task_id = t]
    /\ op' # op
    /\ UNCHANGED <<now, parkings, tasks, queue, on_shift, on_break, fsm, btn, pend, rec>>

\* a text typed in state waiting_for_new_gate_for_stuck_task: an error is
\* answered for a text that is no positive number and for a gate outside
\* the range; otherwise the task gets the gate and goes back to PENDING
\* without a driver; the state is cleared after the notifications
process_new_gate_for_stuck_task_gate(new_gate_number) ==
    LET t == op.stuck_task_id
    IN  /\ op.state = "new_gate"
        /\ t # None
        /\ IF new_gate_number <= 0
           THEN /\ op' = [op EXCEPT !.reply = "not_a_number"]
                /\ UNCHANGED tasks
           ELSE IF t \notin DOMAIN tasks
           THEN /\ op' = NoOp
                /\ UNCHANGED tasks
           ELSE IF ~ valid_new_gate(tasks[t].gate_number, new_gate_number)
           THEN /\ op' = [op EXCEPT !.reply = "invalid_gate"]
                /\ UNCHANGED tasks
           ELSE /\ IF parkings[tasks[t].parking_id].is_hitch
                   THEN /\ tasks[t].priority + 5 <= MaxPriority
                        /\ tasks' = [tasks EXCEPT ![t].gate_number = new_gate_number,
                                                  ![t].status = "PENDING",
                                                  ![t].stuck_reason = "reassigned",
                                                  ![t].driver_id = None,
                                                  ![t].is_in_pool = TRUE,
                                                  ![t].priority = @ + 5]
                   ELSE tasks' = [tasks EXCEPT ![t].gate_number = new_gate_number,
                                               ![t].status = "PENDING",
                                               ![t].stuck_reason = "reassigned",
                                               ![t].driver_id = None]
                /\ op' = NoOp
        /\ UNCHANGED <<now, parkings, queue, on_shift, on_break, fsm, btn, pend, rec>>

\* the operator types "1"
process_new_gate_for_stuck_task == process_new_gate_for_stuck_task_gate(1)

\* button "clear_pool_restart": every STUCK pool task of a parked vehicle
\* goes back to PENDING with its priority lowered by 5 (not below 0).  The
\* reset of PENDING tasks older than 24 hours lies beyond the horizon of the
\* clock and is left out.
process_clear_pool_restart ==
    LET stuck_tasks == {t \in DOMAIN tasks :
                            /\ tasks[t].status = "STUCK"
                            /\ tasks[t].is_in_pool
                            /\ parkings[tasks[t].parking_id].departure_time = NoTime}
    IN  /\ stuck_tasks # {}
        /\ tasks' = [t \in DOMAIN tasks |->
                        IF t \in stuck_tasks
                        THEN [tasks[t] EXCEPT !.status = "PENDING",
                                              !.driver_id = None,
                                              !.stuck_reason = "none",
                                              !.priority = IF @ - 5 < 0 THEN 0 ELSE @ - 5]
                        ELSE tasks[t]]
        /\ UNCHANGED <<now, parkings, queue, on_shift, on_break, fsm, op, btn, pend, rec>>

----------------------------------------------------------------------------
(* The task lifecycle over two parked transfer-capable vehicles *)

\* users 1 and 2 have arrived (process_vehicle_type) with "vehicle_hitch"
InitPool ==
    /\ now = 0
    /\ parkings = <<[user_id |-> 1, spot_number |-> 1, is_hitch |-> TRUE, departure_time |-> NoTime],
                    [user_id |-> 2, spot_number |-> 2, is_hitch |-> TRUE, departure_time |-> NoTime]>>
    /\ tasks = [t \in {} |-> None]
    /\ queue = <<>>
    /\ on_shift = {}
    /\ on_break = {}
    /\ fsm = [u \in Users |-> NoFsm]
    /\ op = NoOp
    /\ btn = {}
    /\ pend = EmptyBag
    /\ rec = IdleRec

\* the lifecycle of a task up to its completion, and the departure
\* registered by the security post
NextDone ==
    \/ Tick
    \/ \E v \in Users : process_deb_departure_input(v)
    \/ \E u \in Users : process_shift_start(u)
    \/ \E p \in DOMAIN parkings : process_select_vehicle(p)
    \/ process_select_abk
    \/ process_gate_assignment
    \/ \E c \in BagToSet(pend) : process_gate_assignment_commit(c)
    \/ \E u \in Users : process_gate_request(u)
    \/ \E u \in Users : process_gate_completed(u)
    \/ \E c \in BagToSet(pend) : state_clear(c)
    \/ \E u \in Users : process_take_task(u)
    \/ \E u \in Users : process_transfer_gate_completed(u)

SpecDone == InitPool /\ [][NextDone]_vars

\* users 1 and 2 are parked with transfer-capable vehicles and have started
\* their shifts (process_shift_start)
InitStuck ==
    /\ now = 0
    /\ parkings = <<[user_id |-> 1, spot_number |-> 1, is_hitch |-> TRUE, departure_time |-> NoTime],
                    [user_id |-> 2, spot_number |-> 2, is_hitch |-> TRUE, departure_time |-> NoTime]>>
    /\ tasks = [t \in {} |-> None]
    /\ queue = <<>>
    /\ on_shift = Users
    /\ on_break = {}
    /\ fsm = [u \in Users |-> NoFsm]
    /\ op = NoOp
    /\ btn = {}
    /\ pend = EmptyBag
    /\ rec = IdleRec

\* blocked tasks and what the operator does with them
NextStuck ==
    \/ \E p \in DOMAIN parkings : process_select_vehicle(p)
    \/ process_select_abk
    \/ process_gate_assignment
    \/ \E c \in BagToSet(pend) : process_gate_assignment_commit(c)
    \/ \E u \in Users : process_take_task(u)
    \/ \E u \in Users : process_transfer_gate_occupied(u)
    \/ \E u \in Users : process_transfer_gate_completed(u)
    \/ \E c \in BagToSet(pend) : state_clear(c)
    \/ process_stuck_tasks
    \/ \E t \in DOMAIN tasks : process_close_stuck_task(t)
    \/ \E t \in DOMAIN tasks : process_reassign_gate(t)
    \/ process_new_gate_for_stuck_task
    \/ process_clear_pool_restart

SpecStuck == InitStuck /\ [][NextStuck]_vars

----------------------------------------------------------------------------
(* The parking lot and its queue alone *)

NextLot ==
    \/ Tick
    \/ \E u \in Users, h \in BOOLEAN : process_vehicle_type(u, h)
    \/ \E u \in Users : process_departure(u)
    \/ \E u \in Users : process_departure_refused(u)
    \/ \E c \in BagToSet(pend) : process_parking_departure(c)
    \/ \E v \in Users : process_deb_departure_input(v)

SpecLot == Init /\ [][NextLot]_vars

----------------------------------------------------------------------------
(* Claims from the pool *)

\* a task that has waited in the pool: the reconciler has added 1 to the
\* priority of a task created before `now` up to MaxBumps times
WaitingTask(p) ==
    {[NewTask(p, x[1]) EXCEPT !.priority = x[2]] :
        x \in {y \in (0 .. MaxTime) \X (0 .. MaxBumps) : y[1] < MaxTime \/ y[2] = 0}}

\* users 1 and 2 are parked with transfer-capable vehicles, everybody is on
\* shift, and the operator has created the tasks, task t for the vehicle of
\* user 2 - (t % 2)
InitTake ==
    /\ now = MaxTime
    /\ parkings = <<[user_id |-> 1, spot_number |-> 1, is_hitch |-> TRUE, departure_time |-> NoTime],
                    [user_id |-> 2, spot_number |-> 2, is_hitch |-> TRUE, departure_time |-> NoTime]>>
    /\ tasks \in {f \in [1 .. MaxTasks -> WaitingTask(1) \cup WaitingTask(2)] :
                    \A t \in 1 .. MaxTasks : f[t].parking_id = 2 - (t % 2)}
    /\ queue = <<>>
    /\ on_shift = Users
    /\ on_break = {}
    /\ fsm = [u \in Users |-> NoFsm]
    /\ op = NoOp
    /\ btn = {}
    /\ pend = EmptyBag
    /\ rec = IdleRec

NextTake ==
    \/ \E u \in Users : process_gate_request(u)
    \/ \E u \in Users : process_gate_occupied(u)
    \/ \E u \in Users : process_take_task(u)
    \/ \E c \in BagToSet(pend) : process_take_task_resume(c)
    \/ \E u \in Users : process_transfer_gate_occupied(u)
    \/ \E u \in Users : process_transfer_gate_completed(u)
    \/ \E c \in BagToSet(pend) : state_clear(c)
    \/ process_clear_pool_restart

SpecTake == InitTake /\ [][NextTake]_vars

----------------------------------------------------------------------------
(* Properties of the parking lot (SpecLot) *)

\* C1 - Allocation uniqueness: no two occupancies with departure_time unset
\* share a spot number, however the arrivals interleave.
AllocationUniqueness ==
    \A p, q \in ActiveParkings :
        p # q => parkings[p].spot_number # parkings[q].spot_number

\* C1 witness: two vehicles are parked at once, one of them on a spot that
\* an earlier occupant has left.
AllocationReusesSpot ==
    /\ Cardinality(ActiveParkings) >= 2
    /\ \E p \in ActiveParkings, q \in DOMAIN parkings :
            /\ parkings[q].departure_time # NoTime
            /\ parkings[q].spot_number = parkings[p].spot_number

\* C7 - Queue FIFO: an entry that becomes notified was created no later
\* than every entry that was waiting with it.
QueueFIFO ==
    [][\A q \in DOMAIN queue :
            (queue[q].status = "waiting" /\ queue'[q].status = "notified")
                => \A r \in Waiting : queue[q].created_at <= queue[r].created_at]_vars

\* C7 witness: an entry has been notified while an entry created later is
\* still waiting.
EarlierEntryNotified ==
    \E q, r \in DOMAIN queue :
        /\ queue[q].status = "notified"
        /\ queue[r].status = "waiting"
        /\ queue[q].created_at < queue[r].created_at

\* C8 - No double notification: at most one queue entry is notified for a
\* reserved spot number.  The code violates it.
NoDoubleNotification ==
    \A q, r \in DOMAIN queue :
        (/\ q # r
         /\ queue[q].status = "notified"
         /\ queue[r].status = "notified")
            => queue[q].spot_number # queue[r].spot_number

\* C10 - Every spot release triggers promotion: a step that sets the
\* departure_time of an occupancy while somebody waits in the queue starts
\* the processing of the queue for its spot.  The code violates it.
ReleaseTriggersPromotion ==
    [][\A p \in DOMAIN parkings :
            (/\ parkings[p].departure_time = NoTime
             /\ parkings'[p].departure_time # NoTime
             /\ Waiting # {})
                => LET c == Cont("promote", parkings[p].spot_number, None)
                   IN  CopiesIn(c, pend') > CopiesIn(c, pend)]_vars

----------------------------------------------------------------------------
(* Properties of the claims from the pool (SpecTake) *)

\* C3 - Task claim exclusivity: a step that makes a driver the driver of a
\* task starts from a PENDING task that nobody holds, so of two claims of
\* the same task only one succeeds.
TaskClaimExclusivity ==
    [][\A t \in DOMAIN tasks, u \in Users :
            (tasks'[t].driver_id = u /\ tasks[t].driver_id # u)
                => (tasks[t].driver_id = None /\ tasks[t].status = "PENDING")]_vars

\* C3 witness: a driver's claim is suspended after it returned his blocked
\* task to the pool, and another driver has claimed that task meanwhile.
ConcurrentClaimLost ==
    \E c \in BagToSet(pend), t \in DOMAIN tasks :
        /\ c.k = "claim"
        /\ tasks[t].status = "IN_PROGRESS"
        /\ tasks[t].driver_id \notin {None, c.a}
        /\ parkings[tasks[t].parking_id].user_id = c.a
        /\ fsm[tasks[t].driver_id] = [state |-> "tgate", task_id |-> t]

\* a claim from the pool has given task t to driver u in this step
ClaimedFromPool(u, t) ==
    /\ tasks[t].status = "PENDING"
    /\ tasks'[t].status = "IN_PROGRESS"
    /\ tasks'[t].driver_id = u
    /\ fsm'[u] = [state |-> "tgate", task_id |-> t]

\* C4 - Priority ordering: a claim from the pool assigns an eligible task of
\* maximal priority and, among those, of minimal created_at; a driver on
\* shift without a task in work who presses the button gets one whenever an
\* eligible task exists, and nothing is assigned when none is eligible.
PriorityOrdering ==
    [][/\ \A u \in Users, t \in DOMAIN tasks :
            ClaimedFromPool(u, t)
                => /\ t \in Eligible
                   /\ \A e \in Eligible :
                        /\ tasks[e].priority <= tasks[t].priority
                        /\ tasks[e].priority = tasks[t].priority
                              => tasks[t].created_at <= tasks[e].created_at
       /\ \A u \in Users :
            (/\ process_take_task(u)
             /\ ~ \E t \in DOMAIN tasks :
                    tasks[t].driver_id = u /\ tasks[t].status \in {"STUCK", "IN_PROGRESS"})
                => IF Eligible = {}
                   THEN tasks' = tasks
                   ELSE \E t \in Eligible : ClaimedFromPool(u, t)]_vars

\* C4 witness: a driver holds a task claimed from the pool while a task
\* created earlier, of lower priority, is still eligible.
HigherPriorityClaimedFirst ==
    \E t \in DOMAIN tasks, e \in Eligible :
        /\ tasks[t].status = "IN_PROGRESS"
        /\ tasks[t].driver_id # None
        /\ fsm[tasks[t].driver_id] = [state |-> "tgate", task_id |-> t]
        /\ tasks[t].started_at = now
        /\ tasks[e].priority < tasks[t].priority
        /\ tasks[e].created_at < tasks[t].created_at

----------------------------------------------------------------------------
(* Properties of the completion and of the departure (SpecDone) *)

\* C5 - Idempotent completion: once a task is COMPLETED a further
\* completion is refused and changes nothing, so its completed_at stays as
\* the first completion has set it.  The code violates it.
IdempotentCompletion ==
    [][\A t \in DOMAIN tasks :
            tasks[t].status = "COMPLETED"
                => tasks'[t].completed_at = tasks[t].completed_at]_vars

\* C9 - No departure mid-task: no step sets the departure_time of an
\* occupancy and leaves a PENDING or IN_PROGRESS task on it.  The code
\* violates it.
NoDepartureMidTask ==
    [][\A p \in DOMAIN parkings :
            (parkings[p].departure_time = NoTime /\ parkings'[p].departure_time # NoTime)
                => \A t \in DOMAIN tasks' :
                        tasks'[t].parking_id = p
                            => tasks'[t].status \notin {"PENDING", "IN_PROGRESS"}]_vars

----------------------------------------------------------------------------
(* Properties of the blocked tasks (SpecStuck) *)

\* C2 - Task exclusivity: an occupancy has at most one task in PENDING or
\* IN_PROGRESS.  The code violates it.
TaskExclusivity ==
    \A p \in DOMAIN parkings :
        Cardinality({t \in DOMAIN tasks : /\ tasks[t].parking_id = p
                                          /\ tasks[t].status \in {"PENDING", "IN_PROGRESS"}}) <= 1

\* C6 - COMPLETED and CANCELLED are terminal: a task in one of them keeps
\* its status.  The code violates it.
TerminalStatus ==
    [][\A t \in DOMAIN tasks :
            tasks[t].status \in {"COMPLETED", "CANCELLED"}
                => (t \in DOMAIN tasks' /\ tasks'[t].status = tasks[t].status)]_vars

----------------------------------------------------------------------------
(* The arrival dialogue *)

InQueue(u) == {q \in DOMAIN queue : /\ queue[q].user_id = u
                                    /\ queue[q].status \in {"waiting", "notified"}}

\* "Прибытие": a user who is parked, or who has a waiting or notified
\* queue entry, is answered and nothing changes; otherwise the dialogue
\* opens with the question for the vehicle number
process_arrival(u) ==
    /\ active_parking(u) = None
    /\ InQueue(u) = {}
    /\ fsm' = [fsm EXCEPT ![u] = [state |-> "vehicle_number", task_id |-> None]]
    /\ UNCHANGED <<now, parkings, tasks, queue, on_shift, on_break, op, btn, pend, rec>>

process_arrival_refused(u) ==
    /\ active_parking(u) # None \/ InQueue(u) # {}
    /\ UNCHANGED vars

\* a valid vehicle number: the vehicle-type keyboard is sent
process_vehicle_number(u) ==
    /\ fsm[u].state = "vehicle_number"
    /\ fsm' = [fsm EXCEPT ![u] = [state |-> "vehicle_type", task_id |-> None]]
    /\ UNCHANGED <<now, parkings, tasks, queue, on_shift, on_break, op, btn, pend, rec>>

NextArrive ==
    \/ Tick
    \/ \E u \in Users : process_arrival(u)
    \/ \E u \in Users : process_arrival_refused(u)
    \/ \E u \in Users : process_vehicle_number(u)
    \/ \E u \in Users, h \in BOOLEAN : process_vehicle_type(u, h)
    \/ \E u \in Users : process_departure(u)
    \/ \E c \in BagToSet(pend) : process_parking_departure(c)

SpecArrive == Init /\ [][NextArrive]_vars

----------------------------------------------------------------------------
(* Properties of the reservations (SpecLot, SpecArrive) *)

\* C11 - Reservation holds: while a queue entry is notified with spot s
\* reserved for it, no step creates an occupancy of spot s for another
\* user.  The code violates it.
ReservationHolds ==
    [][\A p \in DOMAIN parkings' :
            p \notin DOMAIN parkings
                => \A q \in DOMAIN queue :
                        (queue[q].status = "notified"
                            /\ queue[q].spot_number = parkings'[p].spot_number)
                                => queue[q].user_id = parkings'[p].user_id]_vars

\* C12 - Confirm arrival: a step that parks a user who has a notified
\* queue entry creates the occupancy at the spot reserved by the entry and
\* takes the entry out of status notified.  The code violates it.
ConfirmArrival ==
    [][\A q \in DOMAIN queue :
            (/\ queue[q].status = "notified"
             /\ \E p \in DOMAIN parkings' :
                    p \notin DOMAIN parkings /\ parkings'[p].user_id = queue[q].user_id)
                => /\ \E p \in DOMAIN parkings' :
                        /\ p \notin DOMAIN parkings
                        /\ parkings'[p].user_id = queue[q].user_id
                        /\ parkings'[p].spot_number = queue[q].spot_number
                   /\ queue'[q].status # "notified"]_vars

----------------------------------------------------------------------------
(* Properties of the assignment of tasks *)

\* C13 - One active task per driver: no user is the driver_id of more than
\* one IN_PROGRESS task.  The code violates it.
OneActiveTaskPerDriver ==
    \A u \in Users :
        Cardinality({t \in DOMAIN tasks : /\ tasks[t].status = "IN_PROGRESS"
                                          /\ tasks[t].driver_id = u}) <= 1

\* C14 - createTask fails with DuplicateActiveTask: no step adds a task for
\* an occupancy that has a PENDING, IN_PROGRESS or STUCK task.  The code
\* violates it.
DuplicateActiveTask ==
    [][\A t \in DOMAIN tasks' :
            t \notin DOMAIN tasks
                => \A x \in DOMAIN tasks :
                        tasks[x].parking_id = tasks'[t].parking_id
                            => tasks[x].status \notin {"PENDING", "IN_PROGRESS", "STUCK"}]_vars

----------------------------------------------------------------------------
(* Shift end and breaks of the transfer drivers *)

InProgressOf(u) == {t \in DOMAIN tasks : /\ tasks[t].driver_id = u
                                         /\ tasks[t].status = "IN_PROGRESS"}

\* "Закончить смену"
process_shift_end(u) ==
    /\ u \in TransferDrivers
    /\ u \in on_shift
    /\ u \notin on_break
    /\ InProgressOf(u) = {}
    /\ on_shift' = on_shift \ {u}
    /\ UNCHANGED <<now, parkings, tasks, queue, on_break, fsm, op, btn, pend, rec>>

\* button break_start of the break menu: the confirmation keyboard is shown
process_break_start(u) ==
    /\ u \in on_shift
    /\ u \notin on_break
    /\ InProgressOf(u) = {}
    /\ fsm[u].state # "break_confirm"
    /\ fsm' = [fsm EXCEPT ![u].state = "break_confirm"]
    /\ UNCHANGED <<now, parkings, tasks, queue, on_shift, on_break, op, btn, pend, rec>>

\* button break_confirm of the confirmation keyboard.  The handler has no
\* state filter and no check; the keyboard is on the screen from
\* process_break_start until this handler replaces the message, which is
\* while the dialogue state is waiting_for_break_confirmation when no other
\* dialogue is started in between.
process_break_confirm(u) ==
    /\ fsm[u].state = "break_confirm"
    /\ on_break' = on_break \cup {u}
    /\ fsm' = [fsm EXCEPT ![u] = NoFsm]
    /\ UNCHANGED <<now, parkings, tasks, queue, on_shift, op, btn, pend, rec>>

\* button break_cancel of the confirmation keyboard
process_break_cancel(u) ==
    /\ fsm[u].state = "break_confirm"
    /\ fsm' = [fsm EXCEPT ![u] = NoFsm]
    /\ UNCHANGED <<now, parkings, tasks, queue, on_shift, on_break, op, btn, pend, rec>>

\* button break_end of the break menu
process_break_end(u) ==
    /\ u \in on_break
    /\ on_break' = on_break \ {u}
    /\ UNCHANGED <<now, parkings, tasks, queue, on_shift, fsm, op, btn, pend, rec>>

----------------------------------------------------------------------------
(* Creation of tasks for a transfer-capable and a fixed-class vehicle *)

\* user 1 is parked with a transfer-capable vehicle, user 2 with a
\* fixed-class one; nobody is on shift
InitFixed ==
    /\ now = 0
    /\ parkings = <<[user_id |-> 1, spot_number |-> 1, is_hitch |-> TRUE, departure_time |-> NoTime],
                    [user_id |-> 2, spot_number |-> 2, is_hitch |-> FALSE, departure_time |-> NoTime]>>
    /\ tasks = [t \in {} |-> None]
    /\ queue = <<>>
    /\ on_shift = {}
    /\ on_break = {}
    /\ fsm = [u \in Users |-> NoFsm]
    /\ op = NoOp
    /\ btn = {}
    /\ pend = EmptyBag
    /\ rec = IdleRec

NextCreate ==
    \/ Tick
    \/ \E u \in Users : process_shift_start(u)
    \/ \E u \in Users : process_shift_end(u)
    \/ \E u \in Users : process_break_start(u)
    \/ \E u \in Users : process_break_confirm(u)
    \/ \E u \in Users : process_break_cancel(u)
    \/ \E u \in Users : process_break_end(u)
    \/ \E p \in DOMAIN parkings : process_select_vehicle(p)
    \/ process_select_abk
    \/ process_gate_assignment
    \/ \E c \in BagToSet(pend) : process_gate_assignment_commit(c)

SpecCreate == InitFixed /\ [][NextCreate]_vars

\* C15 - createTask routing: a task is inserted PENDING, without driver,
\* with priority 0, in the pool exactly if its vehicle is transfer-capable;
\* the notification started by the creation goes to exactly the transfer
\* drivers who are on shift and not on break for a transfer-capable vehicle
\* and to the owner alone for a fixed-class one, and a creation that sends
\* nothing is one for a transfer-capable vehicle with no such driver.
CreateTaskRouting ==
    [][/\ \A c \in BagToSet(pend') :
            (c.k = "addtask" /\ CopiesIn(c, pend') > CopiesIn(c, pend))
                => c.to = IF parkings[c.a].is_hitch
                          THEN {u \in TransferDrivers : u \in on_shift /\ u \notin on_break}
                          ELSE {parkings[c.a].user_id}
       /\ \A t \in DOMAIN tasks' :
            t \notin DOMAIN tasks
                => /\ tasks'[t].status = "PENDING"
                   /\ tasks'[t].driver_id = None
                   /\ tasks'[t].priority = 0
                   /\ tasks'[t].is_in_pool = parkings[tasks'[t].parking_id].is_hitch
                   /\ pend' = pend
                        => /\ parkings[tasks'[t].parking_id].is_hitch
                           /\ {u \in TransferDrivers : u \in on_shift /\ u \notin on_break} = {}]_vars

\* a broadcast for the transfer-capable vehicle is under way that leaves
\* out a driver on break, and the task of the fixed-class vehicle is in the
\* table outside the pool
BroadcastAndDirectTask ==
    /\ \E c \in BagToSet(pend) :
            /\ c.k = "addtask"
            /\ parkings[c.a].is_hitch
            /\ c.to # {}
            /\ \E u \in on_shift : u \in on_break /\ u \notin c.to
    /\ \E t \in DOMAIN tasks :
            /\ ~ parkings[tasks[t].parking_id].is_hitch
            /\ ~ tasks[t].is_in_pool
            /\ tasks[t].status = "PENDING"

----------------------------------------------------------------------------
(* The task of a fixed-class vehicle *)

\* the creation of the tasks, the owner at the gate and the pool
NextFixed ==
    \/ \E u \in Users : process_shift_start(u)
    \/ \E p \in DOMAIN parkings : process_select_vehicle(p)
    \/ process_select_abk
    \/ process_gate_assignment
    \/ \E c \in BagToSet(pend) : process_gate_assignment_commit(c)
    \/ \E u \in Users : process_gate_request(u)
    \/ \E u \in Users : process_gate_occupied(u)
    \/ \E u \in Users : process_take_task(u)
    \/ \E c \in BagToSet(pend) : process_take_task_resume(c)

SpecFixed == InitFixed /\ [][NextFixed]_vars

\* C16 - Pool membership: a task is in the pool only if its vehicle is
\* transfer-capable.  The code violates it.
PoolMembership ==
    \A t \in DOMAIN tasks :
        tasks[t].is_in_pool => parkings[tasks[t].parking_id].is_hitch

----------------------------------------------------------------------------
(* The reconciler: check_and_notify_unassigned_tasks *)

\* pool_tasks: the rows of the first query with the priority loaded into
\* the session
PoolQuery_any_age(at) ==
    {[id |-> t, priority |-> tasks[t].priority] :
        t \in {x \in DOMAIN tasks :
                /\ tasks[x].status = "PENDING"
                /\ tasks[x].is_in_pool
                /\ parkings[tasks[x].parking_id].departure_time = NoTime}}

PoolQuery(at) ==
    {[id |-> t, priority |-> tasks[t].priority] :
        t \in {x \in DOMAIN tasks :
                /\ tasks[x].status = "PENDING"
                /\ tasks[x].is_in_pool
                /\ tasks[x].created_at <= at - POOL_WAIT_TICKS
                /\ parkings[tasks[x].parking_id].departure_time = NoTime}}

\* stuck_tasks: the rows of the second query with the columns loaded into
\* the session (a started_at that is NULL matches no comparison)
StuckQuery_any_age(at) ==
    {[id |-> t, priority |-> tasks[t].priority, driver_id |-> tasks[t].driver_id,
      is_in_pool |-> tasks[t].is_in_pool] :
        t \in {x \in DOMAIN tasks :
                /\ tasks[x].status = "IN_PROGRESS"
                /\ tasks[x].started_at # NoTime}}

StuckQuery(at) ==
    {[id |-> t, priority |-> tasks[t].priority, driver_id |-> tasks[t].driver_id,
      is_in_pool |-> tasks[t].is_in_pool] :
        t \in {x \in DOMAIN tasks :
                /\ tasks[x].status = "IN_PROGRESS"
                /\ tasks[x].started_at # NoTime
                /\ tasks[x].started_at <= at - STUCK_TASK_TICKS}}

Ids(S) == {x.id : x \in S}

Loaded(S, t) == CHOOSE x \in S : x.id = t

\* db.commit() of the run: one UPDATE per changed object, which sets the
\* columns whose value in the session differs from the loaded one and
\* leaves the other columns of the row as they are in the table
Flush(pool, stuck) ==
    [t \in DOMAIN tasks |->
        IF t \in Ids(stuck)
        THEN LET y == Loaded(stuck, t)
                 base == IF t \in Ids(pool) THEN Loaded(pool, t).priority + 1 ELSE y.priority
             IN  IF parkings[tasks[t].parking_id].is_hitch
                 THEN [tasks[t] EXCEPT !.status = "STUCK",
                                       !.stuck_reason = "timeout",
                                       !.driver_id = IF y.driver_id # None THEN None ELSE @,
                                       !.is_in_pool = IF ~ y.is_in_pool THEN TRUE ELSE @,
                                       !.priority = base + 10]
                 ELSE [tasks[t] EXCEPT !.status = "STUCK",
                                       !.stuck_reason = "timeout",
                                       !.priority = IF t \in Ids(pool) THEN base ELSE @]
        ELSE IF t \in Ids(pool)
        THEN [tasks[t] EXCEPT !.priority = Loaded(pool, t).priority + 1]
        ELSE tasks[t]]

\* a run in which the exception of a failed send leaves the sweep, so that
\* db.commit() is not reached
CommitUnlessFailed(pool, stuck, failed) ==
    IF failed THEN tasks ELSE Flush(pool, stuck)

\* every send of the run is in a try / except Exception of its own, so the
\* run reaches db.commit() whether or not a send has raised
Commit(pool, stuck, failed) == Flush(pool, stuck)

\* asyncio.sleep(60) is over: the run takes `now` and reads pool_tasks.
\* With pool tasks it raises their priority in the session and suspends in
\* the notifications; without, it goes on to the second query, and with no
\* row there either it commits nothing.
rec_wake ==
    /\ rec.pc = "sleep"
    /\ rec.runs < MaxRuns
    /\ LET pool == PoolQuery(now)
           stuck == StuckQuery(now)
           run == [IdleRec EXCEPT !.at = now, !.runs = rec.runs + 1]
       IN  rec' = IF pool # {} THEN [run EXCEPT !.pc = "pool", !.pool = pool]
                  ELSE IF stuck # {} THEN [run EXCEPT !.pc = "stuck", !.stuck = stuck]
                  ELSE run
    /\ UNCHANGED <<now, parkings, tasks, queue, on_shift, on_break, fsm, op, btn, pend>>

\* the notifications about the pool tasks are over, failed or not: the
\* second query is made; with rows the run changes them in the session and
\* suspends in their notifications, without it commits
rec_pool_notified ==
    /\ rec.pc = "pool"
    /\ \E failed \in BOOLEAN :
        LET stuck == StuckQuery(rec.at)
        IN  IF stuck # {}
            THEN /\ rec' = [rec EXCEPT !.pc = "stuck", !.stuck = stuck, !.failed = failed]
                 /\ UNCHANGED tasks
            ELSE /\ tasks' = Commit(rec.pool, {}, failed)
                 /\ rec' = [rec EXCEPT !.pc = "sleep", !.pool = {}, !.failed = failed]
    /\ UNCHANGED <<now, parkings, queue, on_shift, on_break, fsm, op, btn, pend>>

\* the notifications about the timed-out tasks are over, failed or not:
\* db.commit()
rec_stuck_notified ==
    /\ rec.pc = "stuck"
    /\ \E failed \in BOOLEAN :
        /\ tasks' = Commit(rec.pool, rec.stuck, rec.failed \/ failed)
        /\ rec' = [rec EXCEPT !.pc = "sleep", !.pool = {}, !.stuck = {},
                              !.failed = rec.failed \/ failed]
    /\ UNCHANGED <<now, parkings, queue, on_shift, on_break, fsm, op, btn, pend>>

\* user 1 is parked with a transfer-capable vehicle, user 2 with a
\* fixed-class one, both are on shift, and the operator has created a task
\* for each vehicle at time 0
InitRec ==
    /\ now = 0
    /\ parkings = <<[user_id |-> 1, spot_number |-> 1, is_hitch |-> TRUE, departure_time |-> NoTime],
                    [user_id |-> 2, spot_number |-> 2, is_hitch |-> FALSE, departure_time |-> NoTime]>>
    /\ tasks = [t \in 1 .. 2 |-> NewTask(t, 0)]
    /\ queue = <<>>
    /\ on_shift = Users
    /\ on_break = {}
    /\ fsm = [u \in Users |-> NoFsm]
    /\ op = NoOp
    /\ btn = {}
    /\ pend = EmptyBag
    /\ rec = IdleRec

NextRec ==
    \/ Tick
    \/ rec_wake
    \/ rec_pool_notified
    \/ rec_stuck_notified
    \/ \E u \in Users : process_gate_request(u)
    \/ \E u \in Users : process_take_task(u)
    \/ \E c \in BagToSet(pend) : process_take_task_resume(c)
    \/ \E u \in Users : process_transfer_gate_completed(u)
    \/ \E u \in Users : process_transfer_gate_occupied(u)
    \/ \E u \in Users : process_gate_completed(u)
    \/ \E c \in BagToSet(pend) : state_clear(c)

SpecRec == InitRec /\ [][NextRec]_vars

----------------------------------------------------------------------------
(* Properties of the reconciler (SpecRec) *)

\* the step that ends a run with db.commit()
RunCommits == rec.pc \in {"pool", "stuck"} /\ rec'.pc = "sleep"

----------------------------------------------------------------------------
(* Properties of the blocked reports (SpecTake) *)

\* C20 - reportBlocked: a step that leaves a task STUCK and has changed it
\* has found it IN_PROGRESS and leaves it with a stuck_reason and without
\* driver.  The code violates it.
ReportBlockedClearsDriver ==
    [][\A t \in DOMAIN tasks :
            (tasks'[t].status = "STUCK" /\ tasks'[t] # tasks[t])
                => /\ tasks[t].status = "IN_PROGRESS"
                   /\ tasks'[t].stuck_reason # "none"
                   /\ tasks'[t].driver_id = None]_vars

----------------------------------------------------------------------------
(* The other reports of a transfer driver *)

\* the report with the addition of process_no_vehicle (button
\* no_vehicle_<id>)
process_transfer_no_vehicle_5(u) ==
    LET t == fsm[u].task_id
    IN  /\ fsm[u].state = "tgate"
        /\ t # None
        /\ t \in DOMAIN tasks
        /\ CanSpawn
        /\ tasks[t].priority + 20 <= MaxNoVehiclePriority
        /\ tasks' = [tasks EXCEPT ![t].status = "STUCK",
                                  ![t].stuck_reason = "no_vehicle",
                                  ![t].driver_id = None,
                                  ![t].is_in_pool = TRUE,
                                  ![t].priority = @ + 5]
        /\ pend' = Spawn(Cont("clear", u, None))
        /\ UNCHANGED <<now, parkings, queue, on_shift, on_break, fsm, op, btn, rec>>

\* button "transfer_no_vehicle" in state
\* DriverTransferStates.waiting_for_gate_confirmation
process_transfer_no_vehicle(u) ==
    LET t == fsm[u].task_id
    IN  /\ fsm[u].state = "tgate"
        /\ t # None
        /\ t \in DOMAIN tasks
        /\ CanSpawn
        /\ tasks[t].priority + 20 <= MaxNoVehiclePriority
        /\ tasks' = [tasks EXCEPT ![t].status = "STUCK",
                                  ![t].stuck_reason = "no_vehicle",
                                  ![t].driver_id = None,
                                  ![t].is_in_pool = TRUE,
                                  ![t].priority = @ + 20]
        /\ pend' = Spawn(Cont("clear", u, None))
        /\ UNCHANGED <<now, parkings, queue, on_shift, on_break, fsm, op, btn, rec>>

\* button "transfer_breakdown" in state
\* DriverTransferStates.waiting_for_gate_confirmation
process_transfer_breakdown(u) ==
    LET t == fsm[u].task_id
    IN  /\ fsm[u].state = "tgate"
        /\ t # None
        /\ t \in DOMAIN tasks
        /\ CanSpawn
        /\ tasks' = [tasks EXCEPT ![t].status = "STUCK",
                                  ![t].stuck_reason = "breakdown",
                                  ![t].driver_id = None,
                                  ![t].is_in_pool = FALSE]
        /\ pend' = Spawn(Cont("clear", u, None))
        /\ UNCHANGED <<now, parkings, queue, on_shift, on_break, fsm, op, btn, rec>>

\* the reports of the owner and of the transfer drivers on the tasks of a
\* transfer-capable and a fixed-class vehicle
NextBlocked ==
    \/ \E u \in Users : process_gate_request(u)
    \/ \E u \in Users : process_gate_occupied(u)
    \/ \E u \in Users : process_take_task(u)
    \/ \E c \in BagToSet(pend) : process_take_task_resume(c)
    \/ \E u \in Users : process_transfer_gate_occupied(u)
    \/ \E u \in Users : process_transfer_no_vehicle(u)
    \/ \E u \in Users : process_transfer_breakdown(u)
    \/ \E c \in BagToSet(pend) : state_clear(c)

SpecBlocked == InitRec /\ [][NextBlocked]_vars

----------------------------------------------------------------------------
(* Properties of the reports (SpecBlocked) *)

----------------------------------------------------------------------------
(* Gates *)

\* the gate ranges of the buildings: building 1 has the gates 1..59 and
\* 66..83, building 2 the gates 1..10
InBuildingRange(abk_type, gate_number) ==
    \/ abk_type = "ABK1" /\ gate_number \in (1 .. 59) \cup (66 .. 83)
    \/ abk_type = "ABK2" /\ gate_number \in 1 .. 10

\* the creation dialogue with every building and every text for the gate
NextGate ==
    \/ \E u \in Users : process_shift_start(u)
    \/ \E p \in DOMAIN parkings : process_select_vehicle(p)
    \/ process_select_abk
    \/ process_select_abk2
    \/ \E g \in Gates : process_gate_assignment_gate(g)
    \/ \E c \in BagToSet(pend) : process_gate_assignment_commit(c)

SpecGate == InitFixed /\ [][NextGate]_vars

\* user 1 is parked with a transfer-capable vehicle, user 2 with a
\* fixed-class one, both are on shift; the operator has created the task of
\* the first vehicle for gate 10 of building 2 and the task of the second
\* for gate 1 of building 1
InitReassign ==
    /\ now = 0
    /\ parkings = <<[user_id |-> 1, spot_number |-> 1, is_hitch |-> TRUE, departure_time |-> NoTime],
                    [user_id |-> 2, spot_number |-> 2, is_hitch |-> FALSE, departure_time |-> NoTime]>>
    /\ tasks = [t \in 1 .. 2 |->
                    IF t = 1 THEN [NewTask(t, 0) EXCEPT !.abk_type = "ABK2", !.gate_number = 10]
                    ELSE NewTask(t, 0)]
    /\ queue = <<>>
    /\ on_shift = Users
    /\ on_break = {}
    /\ fsm = [u \in Users |-> NoFsm]
    /\ op = NoOp
    /\ btn = {}
    /\ pend = EmptyBag
    /\ rec = IdleRec

\* the drivers' reports and what the operator does with the STUCK tasks
NextReassign ==
    \/ \E u \in Users : process_take_task(u)
    \/ \E u \in Users : process_transfer_gate_occupied(u)
    \/ \E u \in Users : process_transfer_breakdown(u)
    \/ \E u \in Users : process_transfer_gate_completed(u)
    \/ \E c \in BagToSet(pend) : state_clear(c)
    \/ process_stuck_tasks
    \/ \E t \in DOMAIN tasks : process_close_stuck_task(t)
    \/ \E t \in DOMAIN tasks : process_reassign_gate(t)
    \/ \E g \in Gates : process_new_gate_for_stuck_task_gate(g)

SpecReassign == InitReassign /\ [][NextReassign]_vars

\* the step in which process_new_gate_for_stuck_task gives task t its gate
NewGateGiven(t) ==
    /\ op.state = "new_gate"
    /\ op.stuck_task_id = t
    /\ op'.state = "none"
    /\ t \in DOMAIN tasks

----------------------------------------------------------------------------
(* Properties of the reassignment (SpecReassign) *)

\* C22 - BREAKDOWN is effectively terminal: a task that is STUCK with the
\* breakdown reason keeps its priority and stays outside the pool, and the
\* only status it goes to is CANCELLED.  The code violates it.
BreakdownTerminal ==
    [][\A t \in DOMAIN tasks :
            (tasks[t].status = "STUCK" /\ tasks[t].stuck_reason = "breakdown")
                => /\ tasks'[t].status \in {"STUCK", "CANCELLED"}
                   /\ ~ tasks'[t].is_in_pool
                   /\ tasks'[t].priority = tasks[t].priority]_vars

\* C23 - reassignGate: the step that gives a task a new gate finds it
\* STUCK and leaves it PENDING without stuck_reason, and in the pool with a
\* higher priority if the vehicle is transfer-capable.  The code violates
\* it.
ReassignGateOnlyStuck ==
    [][\A t \in DOMAIN tasks :
            NewGateGiven(t)
                => /\ tasks[t].status = "STUCK"
                   /\ tasks'[t].status = "PENDING"
                   /\ tasks'[t].stuck_reason = "none"
                   /\ parkings[tasks[t].parking_id].is_hitch
                        => /\ tasks'[t].is_in_pool
                           /\ tasks'[t].priority > tasks[t].priority]_vars

\* C24 - reassignGate re-validates against the building: the gate a task
\* is given lies in the range of the building the task was created for.
\* The code violates it.
ReassignGateInBuilding ==
    [][\A t \in DOMAIN tasks :
            NewGateGiven(t)
                => InBuildingRange(tasks[t].abk_type, tasks'[t].gate_number)]_vars

----------------------------------------------------------------------------
(* Properties of the gate of a new task (SpecGate) *)

\* C25 - InvalidGateNumber: a text for the gate that is outside the range
\* of the chosen building is answered with an error and creates no task,
\* starts no notification and leaves the dialogue and everything else as
\* it is; every task and every notification that is created has a gate of
\* the chosen building.
InvalidGateNumber ==
    [][/\ \A g \in Gates :
            (process_gate_assignment_gate(g) /\ ~ InBuildingRange(op.abk_type, g))
                => /\ op'.reply \in {"not_a_number", "invalid_gate"}
                   /\ [op' EXCEPT !.reply = op.reply] = op
                   /\ UNCHANGED <<now, parkings, tasks, queue, on_shift, on_break,
                                  fsm, btn, pend, rec>>
       /\ \A t \in DOMAIN tasks' :
            t \notin DOMAIN tasks
                => InBuildingRange(tasks'[t].abk_type, tasks'[t].gate_number)
       /\ \A c \in BagToSet(pend') :
            (c.k = "addtask" /\ CopiesIn(c, pend') > CopiesIn(c, pend))
                => InBuildingRange(c.abk_type, c.gate_number)]_vars

\* the operator has been told that the gate is not one of building 1, the
\* dialogue is still waiting for the gate and no task exists
GateRefused ==
    /\ op.reply = "invalid_gate"
    /\ op.state = "gate_number"
    /\ op.abk_type = "ABK1"
    /\ DOMAIN tasks = {}
    /\ pend = EmptyBag

----------------------------------------------------------------------------
(* Properties of the queue (SpecArrive, SpecLot) *)

\* C26 - enqueue guards: a user has at most one waiting or notified queue
\* entry, and never a waiting or notified entry together with an active
\* occupancy.  The code violates it.
EnqueueGuards ==
    \A u \in Users :
        /\ Cardinality(InQueue(u)) <= 1
        /\ ~ (InQueue(u) # {} /\ active_parking(u) # None)

\* services.get_queue_position with "<=" in place of "<"
get_queue_position_le(u) ==
    IF InQueue(u) = {}
    THEN 0
    ELSE LET user_item == Min(InQueue(u))
         IN  Cardinality({r \in DOMAIN queue :
                            /\ queue[r].status \in {"waiting", "notified"}
                            /\ queue[r].created_at <= queue[user_item].created_at}) + 1

\* services.get_queue_position: the first waiting or notified row of the
\* user (rows are read in the order of their ids), and one more than the
\* number of waiting or notified rows created before it
get_queue_position(u) ==
    IF InQueue(u) = {}
    THEN 0
    ELSE LET user_item == Min(InQueue(u))
         IN  Cardinality({r \in DOMAIN queue :
                            /\ queue[r].status \in {"waiting", "notified"}
                            /\ queue[r].created_at < queue[user_item].created_at}) + 1

\* the waiting or notified rows in the order of their enqueue time
\* (rows are appended, so created_at never decreases along the table)
NonTerminal == SelectSeq(queue, LAMBDA e : e.status \in {"waiting", "notified"})

\* C27 - position: 0 for a user without a waiting or notified entry;
\* otherwise the 1-based rank of an entry of the user among the waiting and
\* notified entries ordered by enqueue time: one more than the number of
\* such entries enqueued earlier, which makes it 1 for the head of the
\* ordered list, at most the place of the entry in that list, and smaller
\* for the user who was enqueued earlier.
QueuePosition ==
    /\ \A u \in Users :
        /\ (get_queue_position(u) = 0) <=> (InQueue(u) = {})
        /\ InQueue(u) # {}
            => \E i \in DOMAIN NonTerminal :
                /\ NonTerminal[i].user_id = u
                /\ get_queue_position(u) =
                     1 + Cardinality({j \in DOMAIN NonTerminal :
                            NonTerminal[j].created_at < NonTerminal[i].created_at})
                /\ get_queue_position(u) <= i
    /\ NonTerminal # <<>> => get_queue_position(NonTerminal[1].user_id) = 1
    /\ \A u, v \in Users :
        (/\ Cardinality(InQueue(u)) = 1 /\ Cardinality(InQueue(v)) = 1
         /\ \E q \in InQueue(u), r \in InQueue(v) :
                queue[q].created_at < queue[r].created_at)
            => get_queue_position(u) < get_queue_position(v)

\* two users wait, the second was enqueued later and has position 2
SecondInQueue ==
    /\ get_queue_position(1) = 1
    /\ get_queue_position(2) = 2
    /\ queue[1].user_id = 1

\* the spots without an active occupancy
FreeSpots ==
    {s \in 1 .. PARKING_SPOTS : \A p \in ActiveParkings : parkings[p].spot_number # s}

\* C28 - allocate: the choice of the vehicle type places the vehicle on
\* the lowest-numbered spot that has no active occupancy and adds nothing
\* to the queue; when every spot has an active occupancy it creates no
\* occupancy and appends one waiting queue entry of the user.
AllocateLowestFree ==
    [][\A u \in Users, h \in BOOLEAN :
            process_vehicle_type(u, h)
                => IF FreeSpots # {}
                   THEN /\ Len(parkings') = Len(parkings) + 1
                        /\ SubSeq(parkings', 1, Len(parkings)) = parkings
                        /\ parkings'[Len(parkings')].user_id = u
                        /\ parkings'[Len(parkings')].departure_time = NoTime
                        /\ parkings'[Len(parkings')].spot_number \in FreeSpots
                        /\ \A s \in FreeSpots : parkings'[Len(parkings')].spot_number <= s
                        /\ queue' = queue
                   ELSE /\ parkings' = parkings
                        /\ Len(queue') = Len(queue) + 1
                        /\ SubSeq(queue', 1, Len(queue)) = queue
                        /\ queue'[Len(queue')].user_id = u
                        /\ queue'[Len(queue')].status = "waiting"]_vars

\* spot 1 has been left and taken again while spot 2 stayed occupied, and
\* an arrival at the full lot waits in the queue
LowestSpotRefilled ==
    /\ FreeSpots = {}
    /\ \E p \in ActiveParkings, q \in DOMAIN parkings :
            /\ q < p
            /\ parkings[p].spot_number = 1
            /\ parkings[q].spot_number = 1
            /\ parkings[q].departure_time # NoTime
    /\ \E q \in DOMAIN queue : queue[q].status = "waiting"

----------------------------------------------------------------------------
(* Properties of the life of a task *)

\* C29 - Task state machine: every change of the status of a task is one of
\* PENDING -> IN_PROGRESS, IN_PROGRESS -> COMPLETED, IN_PROGRESS -> STUCK,
\* STUCK -> PENDING, or PENDING / IN_PROGRESS / STUCK -> CANCELLED.  The
\* code violates it.
TaskStateMachine ==
    [][\A t \in DOMAIN tasks :
            tasks'[t].status # tasks[t].status
                => <<tasks[t].status, tasks'[t].status>> \in
                        {<<"PENDING", "IN_PROGRESS">>, <<"IN_PROGRESS", "COMPLETED">>,
                         <<"IN_PROGRESS", "STUCK">>, <<"STUCK", "PENDING">>,
                         <<"PENDING", "CANCELLED">>, <<"IN_PROGRESS", "CANCELLED">>,
                         <<"STUCK", "CANCELLED">>}]_vars

\* C30 - departure_time is set exactly once per occupancy: no step changes
\* a departure_time that is set.  The code violates it.
DepartureTimeSetOnce ==
    [][\A p \in DOMAIN parkings :
            parkings[p].departure_time # NoTime
                => parkings'[p].departure_time = parkings[p].departure_time]_vars

----------------------------------------------------------------------------
(* Properties of retries and of the frame of a completion *)

\* the active occupancies of user u
ActiveOf(u) == {p \in ActiveParkings : parkings[p].user_id = u}

StuckOf(u) == {t \in DOMAIN tasks : tasks[t].driver_id = u /\ tasks[t].status = "STUCK"}

\* C32 - Auto-release before claim: "Взять задачу" of a driver who is the
\* assignee of a STUCK task returns such a task to the pool (PENDING, no
\* assignee, in the pool, higher priority), assigns nothing in that step
\* and leaves the claim pending; the claim that follows is the ordinary
\* one: the driver gets a task unless the driver has a task IN_PROGRESS or
\* the pool is empty, whatever STUCK tasks exist.
AutoReleaseBeforeClaim ==
    [][/\ \A u \in Users :
            (process_take_task(u) /\ StuckOf(u) # {})
                => /\ \E t \in StuckOf(u) :
                        /\ tasks'[t].status = "PENDING"
                        /\ tasks'[t].driver_id = None
                        /\ tasks'[t].is_in_pool
                        /\ tasks'[t].priority > tasks[t].priority
                        /\ \A x \in DOMAIN tasks : x # t => tasks'[x] = tasks[x]
                   /\ CopiesIn(Cont("claim", u, None), pend') =
                        CopiesIn(Cont("claim", u, None), pend) + 1
                   /\ fsm' = fsm
       /\ \A c \in BagToSet(pend) :
            (process_take_task_resume(c)
                /\ PoolFirst # {}
                /\ ~ \E t \in DOMAIN tasks :
                        tasks[t].driver_id = c.a /\ tasks[t].status = "IN_PROGRESS")
                => \E t \in PoolFirst :
                        /\ tasks'[t].status = "IN_PROGRESS"
                        /\ tasks'[t].driver_id = c.a
                        /\ fsm'[c.a].task_id = t]_vars

\* the task driver 1 was stuck with is back in the pool with its raised
\* priority and the claim of driver 1 is about to be attempted
ReleasedBeforeClaim ==
    /\ BagIn(Cont("claim", 1, None), pend)
    /\ \E t \in DOMAIN tasks :
            /\ tasks[t].status = "PENDING"
            /\ tasks[t].driver_id = None
            /\ tasks[t].is_in_pool
            /\ tasks[t].stuck_reason = "gate_occupied"
            /\ tasks[t].priority >= 15

\* C33 - completeTask releases exactly the occupancy the task belongs to:
\* a completion sets the task COMPLETED, leaves the occupancy of the task
\* with departure_time set and modifies no other occupancy.  The code
\* violates it.
CompletionReleasesOwn ==
    [][\A u \in Users :
            (process_gate_completed(u) \/ process_transfer_gate_completed(u))
                => LET p == tasks[fsm[u].task_id].parking_id
                   IN  /\ tasks'[fsm[u].task_id].status = "COMPLETED"
                       /\ parkings'[p].departure_time # NoTime
                       /\ \A q \in DOMAIN parkings :
                            q # p => parkings'[q] = parkings[q]]_vars

----------------------------------------------------------------------------
(* The reconciler under fairness *)

\* the reconciler and the handlers that start a task
NextLive ==
    \/ Tick
    \/ rec_wake
    \/ rec_pool_notified
    \/ rec_stuck_notified
    \/ \E u \in Users : process_gate_request(u)
    \/ \E u \in Users : process_take_task(u)
    \/ \E c \in BagToSet(pend) : process_take_task_resume(c)

\* asyncio.sleep(60) ends and every send returns or raises: each step of
\* the loop is taken once it stays possible
SpecLive ==
    /\ InitRec
    /\ [][NextLive]_vars
    /\ WF_vars(rec_wake)
    /\ WF_vars(rec_pool_notified)
    /\ WF_vars(rec_stuck_notified)

----------------------------------------------------------------------------
(* Properties of handlers that run beside each other (SpecRec) *)

\* C35 - Reconciler writes do not clobber concurrent handlers: the commit
\* of a run leaves the status, the pool flag and the assignee of a task
\* that has been completed or closed since the run selected it as they
\* are.  The code violates it.
ReconcilerKeepsCompletion ==
    [][\A t \in DOMAIN tasks :
            (RunCommits /\ tasks[t].status \in {"COMPLETED", "CANCELLED"})
                => /\ tasks'[t].status = tasks[t].status
                   /\ tasks'[t].is_in_pool = tasks[t].is_in_pool
                   /\ tasks'[t].driver_id = tasks[t].driver_id]_vars

\* C36 - Only the current assignee's action is applied: a completion or a
\* blocked-gate report of a transfer driver changes the task of the
\* driver's dialogue only if the task is IN_PROGRESS with that driver as
\* driver_id.  The code violates it.
OnlyAssigneeActs ==
    [][\A u \in Users :
            (process_transfer_gate_completed(u) \/ process_transfer_gate_occupied(u))
                => \A t \in DOMAIN tasks :
                        tasks'[t] # tasks[t]
                            => /\ tasks[t].status = "IN_PROGRESS"
                               /\ tasks[t].driver_id = u]_vars

\* C37 - Broadcast follows commit: while the notification of the transfer
\* drivers about a new task for a transfer-capable vehicle is being sent,
\* the task is stored as PENDING in the pool.  The code violates it.
BroadcastFollowsCommit ==
    \A c \in BagToSet(pend) :
        (c.k = "addtask" /\ c.to # {} /\ parkings[c.a].is_hitch)
            => \E t \in DOMAIN tasks :
                    /\ tasks[t].parking_id = c.a
                    /\ tasks[t].created_at = c.b
                    /\ tasks[t].status = "PENDING"
                    /\ tasks[t].is_in_pool

----------------------------------------------------------------------------
(* Breaks of the transfer drivers beside the pool *)

\* the tasks of InitRec with the shifts, the breaks and the claims
NextBreak ==
    \/ \E u \in Users : process_shift_start(u)
    \/ \E u \in Users : process_shift_end(u)
    \/ \E u \in Users : process_break_start(u)
    \/ \E u \in Users : process_break_confirm(u)
    \/ \E u \in Users : process_break_cancel(u)
    \/ \E u \in Users : process_break_end(u)
    \/ \E u \in Users : process_take_task(u)
    \/ \E u \in Users : process_transfer_gate_completed(u)
    \/ \E c \in BagToSet(pend) : state_clear(c)

SpecBreak == InitRec /\ [][NextBreak]_vars

\* C38 - At most one active occupancy per occupant: no user has two
\* occupancies with departure_time unset.  The code violates it.
OneActiveOccupancy ==
    \A u \in Users : Cardinality(ActiveOf(u)) <= 1

\* C39 - A transfer driver who is on break takes no task: no step makes a
\* user who is on break the driver of a task.  The code violates it.
NoClaimOnBreak ==
    [][\A u \in on_break :
            \A t \in DOMAIN tasks :
                tasks'[t].driver_id = u => tasks[t].driver_id = u]_vars

\* C40 - Shift/break consistency: a driver who is on break is on shift.
\* The code violates it.
BreakWithinShift ==
    on_break \subseteq on_shift

====
